---- MODULE Spec2Model ----
(***************************************************************************)
(* Model of the sea-surface-temperature anomaly retrieval of               *)
(* streamlit_app.py: _open_ds, _standardize_anom_field,                    *)
(* list_available_times, load_anomaly and the part of main() that calls    *)
(* them (the map explorer of the second tab).                              *)
(*                                                                         *)
(* Timestamps are integers (one unit = half a sampling step), latitudes    *)
(* and longitudes are integer degrees.  A DataArray is a record            *)
(*   dims    : the names of its dimensions, in order,                      *)
(*   shape   : the length of the value array along each dimension,         *)
(*   coords  : dimension name -> sequence of labels,                       *)
(*   scalars : name -> label of the coordinates that a scalar selection    *)
(*             left behind (the "time" stamp of the field).                *)
(* The st.cache_data memoisation of the two loaders is not modelled: every *)
(* call runs the body.                                                     *)
(***************************************************************************)
EXTENDS Integers, Sequences, FiniteSets, TLC

\* ------------------------------------------------------------------ bounds
MaxT == 2
MaxDepth == 2
GridDiv == 2

\* ------------------------------------------------------- provider datasets
\* the time indexes a dataset may carry: strictly increasing, non-empty
TimeIndexes ==
  { s \in UNION { [1..n -> 0..MaxT] : n \in 1..(MaxT + 1) } :
      \A i \in 1..(Len(s) - 1) : s[i] < s[i + 1] }

\* the dates a caller may ask for: inside, below and above any time index
Requests == (0 - 1)..(MaxT + 1)

GridStep(n) == 60 \div n

\* a global grid: latitudes -90..90 ascending, longitudes in [-180, 180)
GridLats(n) == [i \in 1..((180 \div GridStep(n)) + 1) |-> (GridStep(n) * (i - 1)) - 90]

GridLons(n) == [i \in 1..(360 \div GridStep(n)) |-> (GridStep(n) * (i - 1)) - 180]

DepthNames == <<"zlev", "depth", "lev">>

LatNames == {"lat", "latitude"}

LonNameOf(latName) == IF latName = "latitude" THEN "longitude" ELSE "lon"

\* the region presets of main(); <<>> is bbox = None
bbox_dict ==
  { <<>>,
    <<5, 55, 105, 150>>,
    <<20, 55, 120, 170>>,
    <<0, 70, 0 - 80, 20>>,
    <<0 - 30, 5, 140, 0 - 90>> }

\* boxes a direct caller of load_anomaly may pass besides the presets:
\* a box across the antimeridian and a box between the grid nodes
OtherBoxes == { <<0 - 30, 5, 170, 0 - 170>>, <<5, 20, 105, 110>> }

Boxes == bbox_dict \cup OtherBoxes

\* what the provider does with the requests of one call
\*   ok       the bare URL opens
\*   nc_only  the bare URL fails, URL + ".nc" opens
\*   down     both fail
\*   no_anom  the dataset opens but has no "anom" variable
\*   no_time  the dataset opens but has no "time" coordinate
Modes == {"ok", "nc_only", "down", "no_anom", "no_time"}

\* ------------------------------------------------------- array operations
SeqRange(s) == { s[i] : i \in DOMAIN s }

IndexOf(s, x) == CHOOSE i \in DOMAIN s : s[i] = x

InSeq(s, x) == \E i \in DOMAIN s : s[i] = x

RemoveAt(s, k) == [i \in 1..(Len(s) - 1) |-> IF i < k THEN s[i] ELSE s[i + 1]]

Restrict(f, S) == [x \in S |-> f[x]]

NoDA == [dims |-> <<>>, shape |-> <<>>, coords |-> <<>>, scalars |-> <<>>]

\* ds["anom"] of a well-formed dataset
SourceArray(times, depthName, depthSize, latName, n) ==
  LET dnames == IF depthName = "" THEN <<>> ELSE <<depthName>>
      dims == <<"time">> \o dnames \o <<latName, LonNameOf(latName)>>
      coordOf(d) == IF d = "time" THEN times
                    ELSE IF d = depthName THEN [i \in 1..depthSize |-> i - 1]
                    ELSE IF d = latName THEN GridLats(n)
                    ELSE GridLons(n)
  IN [dims |-> dims,
      shape |-> [i \in 1..Len(dims) |-> Len(coordOf(dims[i]))],
      coords |-> [d \in SeqRange(dims) |-> coordOf(d)],
      scalars |-> <<>>]

\* da.isel({d: k}) with a scalar k: the dimension goes, its label stays as a
\* scalar coordinate
SelScalar(da, d, k) ==
  LET p == IndexOf(da.dims, d)
  IN [dims |-> RemoveAt(da.dims, p),
      shape |-> RemoveAt(da.shape, p),
      coords |-> Restrict(da.coords, DOMAIN da.coords \ {d}),
      scalars |-> [x \in DOMAIN da.scalars \cup {d} |->
                     IF x = d THEN da.coords[d][k] ELSE da.scalars[x]]]

\* the k-th smallest element of a set of integers
Nth(K, j) == CHOOSE i \in K : Cardinality({ k \in K : k < i }) = j - 1

\* da.squeeze(drop=True): every dimension of length 1 goes, with its coordinate
Squeeze(da) ==
  LET K == { i \in DOMAIN da.dims : da.shape[i] # 1 }
      gone == { da.dims[i] : i \in DOMAIN da.dims \ K }
  IN [dims |-> [j \in 1..Cardinality(K) |-> da.dims[Nth(K, j)]],
      shape |-> [j \in 1..Cardinality(K) |-> da.shape[Nth(K, j)]],
      coords |-> Restrict(da.coords, DOMAIN da.coords \ gone),
      scalars |-> da.scalars]

\* the rename_map of _standardize_anom_field
RenameOf(d) ==
  IF d = "latitude" THEN "lat" ELSE IF d = "longitude" THEN "lon" ELSE d

\* da.rename(rename_map)
Rename(da) ==
  [dims |-> [i \in DOMAIN da.dims |-> RenameOf(da.dims[i])],
   shape |-> da.shape,
   coords |-> [d \in { RenameOf(x) : x \in DOMAIN da.coords } |->
                 da.coords[CHOOSE x \in DOMAIN da.coords : RenameOf(x) = d]],
   scalars |-> da.scalars]

\* variant: the slice has no upper end
SliceStopOpenEnded(c, hi) == Len(c)

\* positions of a label slice on an ascending index (both ends inclusive):
\* searchsorted(lo, "left") and searchsorted(hi, "right")
SliceStart(c, lo) == Cardinality({ i \in DOMAIN c : c[i] < lo })

SliceStop(c, hi) == Cardinality({ i \in DOMAIN c : c[i] <= hi })

\* da.sel({d: slice(lo, hi)})
SelSlice(da, d, lo, hi) ==
  LET c == da.coords[d]
      start == SliceStart(c, lo)
      stop == SliceStop(c, hi)
      p == IndexOf(da.dims, d)
      len == IF stop > start THEN stop - start ELSE 0
  IN [dims |-> da.dims,
      shape |-> [da.shape EXCEPT ![p] = len],
      coords |-> [da.coords EXCEPT ![d] = SubSeq(c, start + 1, stop)],
      scalars |-> da.scalars]

\* xr.concat([a, b], dim=d)
Concat(a, b, d) ==
  LET p == IndexOf(a.dims, d)
  IN [dims |-> a.dims,
      shape |-> [a.shape EXCEPT ![p] = a.shape[p] + b.shape[p]],
      coords |-> [a.coords EXCEPT ![d] = a.coords[d] \o b.coords[d]],
      scalars |-> a.scalars]

\* ---------------------------------------------- _standardize_anom_field
\* the first of "zlev", "depth", "lev" that is a dimension of da, or ""
FirstDepthDim(da) ==
  LET K == { i \in DOMAIN DepthNames : InSeq(da.dims, DepthNames[i]) }
  IN IF K = {} THEN "" ELSE DepthNames[Nth(K, 1)]

\* variant: the depth dimension is left in place
SelectSurfaceSkipped(da) == da

\* for d in [...]: if d in da.dims: da = da.sel({d: da[d].values[0]}); break
SelectSurface(da) ==
  IF FirstDepthDim(da) = "" THEN da ELSE SelScalar(da, FirstDepthDim(da), 1)

\* tmin, tmax = times.min(), times.max()
TMin(times) == CHOOSE t \in SeqRange(times) : \A u \in SeqRange(times) : t <= u

TMax(times) == CHOOSE t \in SeqRange(times) : \A u \in SeqRange(times) : t >= u

\* variant: the two clamping branches assign the wrong end
ClampTimeSwapped(times, target) ==
  IF target < TMin(times) THEN TMax(times)
  ELSE IF target > TMax(times) THEN TMin(times)
  ELSE target

\* if target_time < tmin: tmin  elif target_time > tmax: tmax
ClampTime(times, target) ==
  IF target < TMin(times) THEN TMin(times)
  ELSE IF target > TMax(times) THEN TMax(times)
  ELSE target

\* get_indexer(method="pad"): last position whose label is <= t, 0 if none
PadIndex(times, t) ==
  LET K == { i \in DOMAIN times : times[i] <= t }
  IN IF K = {} THEN 0 ELSE CHOOSE i \in K : \A k \in K : k <= i

\* get_indexer(method="backfill"): first position whose label is >= t, 0 if none
BackfillIndex(times, t) ==
  LET K == { i \in DOMAIN times : times[i] >= t }
  IN IF K = {} THEN 0 ELSE CHOOSE i \in K : \A k \in K : i <= k

\* variant: the neighbours are searched strictly before and after t
NearestIndexStrict(times, t) ==
  LET L == { i \in DOMAIN times : times[i] < t }
      R == { i \in DOMAIN times : times[i] > t }
      left == IF L = {} THEN 0 ELSE CHOOSE i \in L : \A k \in L : k <= i
      right == IF R = {} THEN 0 ELSE CHOOSE i \in R : \A k \in R : i <= k
  IN IF right = 0 THEN (IF left = 0 THEN 1 ELSE left)
     ELSE IF left = 0 THEN right
     ELSE IF (t - times[left]) < (times[right] - t) THEN left
     ELSE right

\* variant: a tie goes to the pad position
NearestIndexTieLeft(times, t) ==
  LET left == PadIndex(times, t)
      right == BackfillIndex(times, t)
  IN IF right = 0 THEN left
     ELSE IF left = 0 THEN right
     ELSE IF (t - times[left]) <= (times[right] - t) THEN left
     ELSE right

\* sel(time=t, method="nearest") on an increasing index: the pad position
\* when it is strictly nearer than the backfill position (or there is no
\* backfill position), else the backfill position
NearestIndex(times, t) ==
  LET left == PadIndex(times, t)
      right == BackfillIndex(times, t)
  IN IF right = 0 THEN left
     ELSE IF left = 0 THEN right
     ELSE IF (t - times[left]) < (times[right] - t) THEN left
     ELSE right

\* da.sel(time=target_time, method="nearest")
SelNearestTime(da, target) ==
  SelScalar(da, "time", NearestIndex(da.coords["time"], target))

\* the field _standardize_anom_field returns for a well-formed dataset
StandardizeAnomField(anom, times, target) ==
  Rename(Squeeze(SelNearestTime(SelectSurface(anom), ClampTime(times, target))))

\* ------------------------------------------------------------ load_anomaly
\* variant: the slice east of the antimeridian is not appended
WrapLonLeftOnly(da, lon_min, lon_max) == SelSlice(da, "lon", lon_min, 180)

\* the two longitude slices of a box across the antimeridian, concatenated
WrapLon(da, lon_min, lon_max) ==
  Concat(SelSlice(da, "lon", lon_min, 180),
         SelSlice(da, "lon", 0 - 180, lon_max), "lon")

\* the "bbox" block of load_anomaly
BboxSlice(da, bbox) ==
  IF bbox = <<>> THEN da
  ELSE LET byLat == SelSlice(da, "lat", bbox[1], bbox[2])
       IN IF bbox[3] <= bbox[4]
          THEN SelSlice(byLat, "lon", bbox[3], bbox[4])
          ELSE WrapLon(byLat, bbox[3], bbox[4])

\* ------------------------------------------------------------------ state
VARIABLES
  times,      \* provider: the time index of the dataset
  depthName,  \* provider: name of the depth dimension of "anom", "" if none
  depthSize,  \* provider: number of depth levels
  latName,    \* provider: name of the latitude axis ("lat" or "latitude")
  gridN,      \* provider: resolution of the global grid
  mode,       \* provider: how it answers the requests of the current call
  pc,         \* position of the script
  call,       \* the loader that is running or ran last
  handle,     \* the dataset handle of that call: "none", "open", "closed"
  opens,      \* the open requests that call issued, in order
  date,       \* argument of load_anomaly
  bbox,       \* argument of load_anomaly
  da,         \* the DataArray load_anomaly is working on / returned
  err,        \* the exception the call raised, "none" if none
  avail,      \* what list_available_times returned, <<>> before
  ui          \* what the page shows for the map: "none", "rendered",
              \* "error_stopped", "crashed"

vars == <<times, depthName, depthSize, latName, gridN, mode, pc, call, handle,
          opens, date, bbox, da, err, avail, ui>>

provider == <<times, depthName, depthSize, latName, gridN>>

Init ==
  /\ times \in TimeIndexes
  /\ \E i \in 0..Len(DepthNames) :
       /\ depthName = IF i = 0 THEN "" ELSE DepthNames[i]
       /\ depthSize \in IF i = 0 THEN {0} ELSE 1..MaxDepth
  /\ latName \in LatNames
  /\ gridN \in 1..GridDiv
  /\ mode = "ok"
  /\ pc = "idle"
  /\ call = "none"
  /\ handle = "none"
  /\ opens = <<>>
  /\ date = 0
  /\ bbox = <<>>
  /\ da = NoDA
  /\ err = "none"
  /\ avail = <<>>
  /\ ui = "none"

\* ---------------------------------------------------------------- _open_ds
\* does the provider answer a request for the bare URL / for URL + ".nc"
BareOpens(m) == m \notin {"nc_only", "down"}

NcOpens(m) == m # "down"

\* variant: the ".nc" request is made whatever the first one did
OpenRetriesAlways(firstOk) == TRUE

\* the except branch of _open_ds is taken exactly when the first open raised
OpenRetries(firstOk) == ~firstOk

\* try: xr.open_dataset(url_base)
OpenBare ==
  /\ pc = "open_bare"
  /\ opens' = Append(opens, [url |-> "bare", ok |-> BareOpens(mode)])
  /\ IF OpenRetries(BareOpens(mode))
     THEN /\ pc' = "open_nc"
          /\ UNCHANGED handle
     ELSE /\ pc' = "body"
          /\ handle' = "open"
  /\ UNCHANGED <<provider, mode, call, date, bbox, da, err, avail, ui>>

\* except Exception: xr.open_dataset(url_base + ".nc")
OpenNc ==
  /\ pc = "open_nc"
  /\ opens' = Append(opens, [url |-> "nc", ok |-> NcOpens(mode)])
  /\ IF NcOpens(mode)
     THEN /\ pc' = "body"
          /\ handle' = "open"
          /\ UNCHANGED err
     ELSE /\ pc' = "raised"
          /\ err' = "OSError"
          /\ UNCHANGED handle
  /\ UNCHANGED <<provider, mode, call, date, bbox, da, avail, ui>>

\* ---------------------------------------------------- list_available_times
\* main(): times = list_available_times()
CallListAvailableTimes ==
  /\ pc = "idle"
  /\ call' = "list_available_times"
  /\ mode' \in Modes
  /\ pc' = "open_bare"
  /\ handle' = "none"
  /\ opens' = <<>>
  /\ err' = "none"
  /\ da' = NoDA
  /\ UNCHANGED <<provider, date, bbox, avail, ui>>

\* times = pd.to_datetime(ds["time"].values); ds.close(); return
\* (a KeyError leaves the function before ds.close())
ListTimes ==
  /\ pc = "body"
  /\ call = "list_available_times"
  /\ IF mode = "no_time"
     THEN /\ err' = "KeyError"
          /\ pc' = "raised"
          /\ UNCHANGED <<avail, handle>>
     ELSE /\ avail' = times
          /\ handle' = "closed"
          /\ pc' = "returned"
          /\ UNCHANGED err
  /\ UNCHANGED <<provider, mode, call, opens, date, bbox, da, ui>>

\* the exception of list_available_times is not caught in main()
ListCrash ==
  /\ pc = "raised"
  /\ call = "list_available_times"
  /\ ui' = "crashed"
  /\ pc' = "done"
  /\ UNCHANGED <<provider, mode, call, handle, opens, date, bbox, da, err, avail>>

\* ------------------------------------------------------------ load_anomaly
\* main(): da = load_anomaly(target_date, bbox=bbox)
CallLoadAnomaly ==
  /\ pc = "returned"
  /\ call = "list_available_times"
  /\ call' = "load_anomaly"
  /\ date' \in Requests
  /\ bbox' \in Boxes
  /\ mode' \in Modes
  /\ pc' = "open_bare"
  /\ handle' = "none"
  /\ opens' = <<>>
  /\ err' = "none"
  /\ da' = NoDA
  /\ UNCHANGED <<provider, avail, ui>>

\* da = _standardize_anom_field(ds, date); ds["anom"] or ds["time"] raises
\* KeyError on a malformed dataset, and ds.close() is not reached
Standardize ==
  /\ pc = "body"
  /\ call = "load_anomaly"
  /\ IF mode \in {"no_anom", "no_time"}
     THEN /\ err' = "KeyError"
          /\ pc' = "raised"
          /\ UNCHANGED <<da, handle>>
     ELSE /\ da' = StandardizeAnomField(
                     SourceArray(times, depthName, depthSize, latName, gridN),
                     times, date)
          /\ pc' = "bbox"
          /\ UNCHANGED <<err, handle>>
  /\ UNCHANGED <<provider, mode, call, opens, date, bbox, avail, ui>>

\* variant: a field without cells is refused
RaisesOnEmptyChecked(field) == \E i \in DOMAIN field.shape : field.shape[i] = 0

\* load_anomaly has no test of the sliced field: it never raises for a field
\* without cells
RaisesOnEmpty(field) == FALSE

IsEmpty(field) == \E i \in DOMAIN field.shape : field.shape[i] = 0

\* the bbox block, ds.close(), return da
SliceAndClose ==
  /\ pc = "bbox"
  /\ IF RaisesOnEmpty(BboxSlice(da, bbox))
     THEN /\ err' = "EmptyRegion"
          /\ pc' = "raised"
          /\ UNCHANGED <<da, handle>>
     ELSE /\ da' = BboxSlice(da, bbox)
          /\ handle' = "closed"
          /\ pc' = "returned"
          /\ UNCHANGED err
  /\ UNCHANGED <<provider, mode, call, opens, date, bbox, avail, ui>>

\* -------------------------------------------------------------------- main
\* variant: the except branch goes on to draw a map
OnLoadErrorRenders == "rendered"

\* what the except branch of main() does with a failed load
OnLoadError == "error_stopped"

\* except Exception as e: st.error(...); st.stop()
ErrorStop ==
  /\ pc = "raised"
  /\ call = "load_anomaly"
  /\ ui' = OnLoadError
  /\ pc' = "done"
  /\ UNCHANGED <<provider, mode, call, handle, opens, date, bbox, da, err, avail>>

\* plot_cartopy_anomaly, st.pyplot and the three metrics; np.nanmax raises
\* on an array without cells and nothing catches it
Render ==
  /\ pc = "returned"
  /\ call = "load_anomaly"
  /\ ui' = IF IsEmpty(da) THEN "crashed" ELSE "rendered"
  /\ pc' = "done"
  /\ UNCHANGED <<provider, mode, call, handle, opens, date, bbox, da, err, avail>>

\* the script runs again on the next interaction, with fresh locals
Rerun ==
  /\ pc = "done"
  /\ pc' = "idle"
  /\ ui' = "none"
  /\ mode' = "ok"
  /\ call' = "none"
  /\ handle' = "none"
  /\ opens' = <<>>
  /\ date' = 0
  /\ bbox' = <<>>
  /\ da' = NoDA
  /\ err' = "none"
  /\ avail' = <<>>
  /\ UNCHANGED provider

Next ==
  \/ CallListAvailableTimes
  \/ OpenBare
  \/ OpenNc
  \/ ListTimes
  \/ ListCrash
  \/ CallLoadAnomaly
  \/ Standardize
  \/ SliceAndClose
  \/ ErrorStop
  \/ Render
  \/ Rerun

Spec == Init /\ [][Next]_vars

TypeOK ==
  /\ pc \in {"idle", "open_bare", "open_nc", "body", "bbox", "raised", "returned", "done"}
  /\ handle \in {"none", "open", "closed"}
  /\ ui \in {"none", "rendered", "error_stopped", "crashed"}

\* ------------------------------------------------------------- properties
\* load_anomaly has a standardized field in hand (before or after the slicing)
HasField == call = "load_anomaly" /\ pc \in {"bbox", "returned", "done"} /\ err = "none"

\* load_anomaly has returned its field to main()
Returned == call = "load_anomaly" /\ pc \in {"returned", "done"} /\ err = "none"

Stamp == da.scalars["time"]

Lats == da.coords["lat"]

Lons == da.coords["lon"]

Dist(a, b) == IF a < b THEN b - a ELSE a - b

Available(t) == \E i \in DOMAIN times : times[i] = t

Below == \A i \in DOMAIN times : date < times[i]

Above == \A i \in DOMAIN times : date > times[i]

Wrapped == bbox # <<>> /\ bbox[3] > bbox[4]

InLonBox(x) ==
  IF bbox[3] <= bbox[4]
  THEN bbox[3] <= x /\ x <= bbox[4]
  ELSE (bbox[3] <= x /\ x <= 180) \/ ((0 - 180) <= x /\ x <= bbox[4])

InLatBox(y) == bbox[1] <= y /\ y <= bbox[2]

SourceLats == GridLats(gridN)

SourceLons == GridLons(gridN)

\* the box holds at least one cell of the source grid
BoxHasCells ==
  /\ \E i \in DOMAIN SourceLats : InLatBox(SourceLats[i])
  /\ \E j \in DOMAIN SourceLons : InLonBox(SourceLons[j])

\* C1: a request before the first timestamp of the dataset yields a field
\* stamped with the first timestamp, a request after the last timestamp one
\* stamped with the last timestamp.
C1_TimeClamping ==
  HasField =>
    /\ Below => Stamp = times[1]
    /\ Above => Stamp = times[Len(times)]

C1_Witness ==
  /\ Returned
  /\ Len(times) >= 2
  /\ Above
  /\ Stamp = times[Len(times)]
  /\ Stamp # date

\* C2: a request that is itself a timestamp of the dataset yields a field
\* stamped with exactly that timestamp.
C2_NoDrift == (HasField /\ Available(date)) => Stamp = date

C2_Witness ==
  /\ Returned
  /\ Len(times) >= 2
  /\ Available(date)
  /\ Stamp = date

\* C3: for a box with lon_min > lon_max the longitude axis of the returned
\* field holds exactly the source longitudes of [lon_min, 180] and of
\* [-180, lon_max], each once, in eastward order (the part up to 180 first,
\* each part ascending).
Eastward(x) == IF x >= bbox[3] THEN x ELSE x + 360

C3_Wraparound ==
  (Returned /\ Wrapped) =>
    /\ SeqRange(Lons) = { x \in SeqRange(SourceLons) : InLonBox(x) }
    /\ \A i, j \in DOMAIN Lons : i < j => Eastward(Lons[i]) < Eastward(Lons[j])
    /\ \A i, j \in DOMAIN Lons : i # j => Lons[i] # Lons[j]

C3_Witness ==
  /\ Returned
  /\ Wrapped
  /\ \E i, j \in DOMAIN Lons : Lons[i] >= bbox[3] /\ Lons[j] <= bbox[4]

\* C4: every latitude and longitude of a field returned for a box lies in
\* the box, and the field has cells whenever the box holds a cell of the
\* source grid, as the East Asia preset (5, 55, 105, 150) does on every
\* global grid.
C4_Containment ==
  (Returned /\ bbox # <<>>) =>
    /\ \A i \in DOMAIN Lats : InLatBox(Lats[i])
    /\ \A j \in DOMAIN Lons : InLonBox(Lons[j])
    /\ BoxHasCells => ~IsEmpty(da)
    /\ bbox = <<5, 55, 105, 150>> => (Len(Lats) > 0 /\ Len(Lons) > 0)

C4_Witness ==
  /\ Returned
  /\ bbox = <<5, 55, 105, 150>>
  /\ Len(Lats) > 0
  /\ Len(Lons) > 0
  /\ Len(Lons) < Len(SourceLons)

LoadFailed == call = "load_anomaly" /\ pc = "done" /\ err # "none"

EmptyRegionCall ==
  /\ call = "load_anomaly"
  /\ pc \in {"returned", "raised"}
  /\ mode \in {"ok", "nc_only"}
  /\ bbox # <<>>
  /\ ~BoxHasCells

\* C7 as stated: a box without cells makes load_anomaly fail instead of
\* returning a field with no latitudes or no longitudes.
C7_EmptyRegionRaises == EmptyRegionCall => (pc = "raised" /\ err # "none")

\* C7: a box without cells makes load_anomaly return, without an error, a
\* field with no latitudes or no longitudes.
C7_EmptyRegionReturned ==
  EmptyRegionCall =>
    /\ pc = "returned"
    /\ err = "none"
    /\ (Len(Lats) = 0 \/ Len(Lons) = 0)

C7_Witness == EmptyRegionCall /\ pc = "returned" /\ Len(Lats) = 0

\* the request lies between two timestamps and is not one itself
Between == ~Available(date) /\ ~Below /\ ~Above

Nearest(t) == Available(t) /\ \A i \in DOMAIN times : Dist(t, date) <= Dist(times[i], date)

C9_HandleReleased == pc \in {"returned", "raised", "done"} => handle # "open"

\* C10 as stated: one call issues at most one open request.
C10_OneRequest == Len(opens) <= 1

\* C10: one call issues at most two open requests, the second one for
\* URL + ".nc" and only after the request for the bare URL failed; the
\* caller sees an open failure only when both failed.
C10_OneRetry ==
  /\ Len(opens) <= 2
  /\ Len(opens) >= 1 => opens[1].url = "bare"
  /\ Len(opens) = 2 => (~opens[1].ok /\ opens[2].url = "nc")
  /\ err = "OSError" => (Len(opens) = 2 /\ ~opens[2].ok)

C10_Witness ==
  /\ Returned
  /\ Len(opens) = 2
  /\ ~opens[1].ok
  /\ opens[2].ok

====
